---- MODULE Spec2Model ----
(***************************************************************************)
(* Model of src/work.py: the metrics derivation get_company_metrics, the   *)
(* logo helpers first_non_nan_url / download_image and the batch loop of   *)
(* process_data_and_generate_reports.                                      *)
(*                                                                         *)
(* Python strings are sequences of one-character strings, so that          *)
(* str.lower, str.strip, startswith, the `in` substring test and re.sub    *)
(* are computed character by character.  A spreadsheet cell is a record    *)
(* [kind, num, str] with kind "num", "str", "nan" (empty cell) or "none"   *)
(* (the value of row.get on an absent column).                             *)
(***************************************************************************)
EXTENDS Integers, Sequences, FiniteSets, TLC

\* ---------------------------------------------------------------- bounds
MaxEmployees == 300

MaxRows == 2

\* ------------------------------------------------------- string literals
S_financial ==
    <<"f", "i", "n", "a", "n", "c", "i", "a", "l">>

S_manufacturing ==
    <<"m", "a", "n", "u", "f", "a", "c", "t", "u", "r", "i", "n", "g">>

S_tech ==
    <<"t", "e", "c", "h">>

S_http ==
    <<"h", "t", "t", "p", ":", "/", "/">>

S_https ==
    <<"h", "t", "t", "p", "s", ":", "/", "/">>

S_nan ==
    <<"n", "a", "n">>

S_General ==
    <<"G", "e", "n", "e", "r", "a", "l">>

S_Company_ ==
    <<"C", "o", "m", "p", "a", "n", "y", "_">>

S_reports_AP_Audit_ ==
    <<"r", "e", "p", "o", "r", "t", "s", "/", "A", "P", "_", "A", "u", "d", "i", "t", "_">>

S_pdf ==
    <<".", "p", "d", "f">>

S_img ==
    <<"i", "m", "g", "/">>

S_logo_png ==
    <<"_", "l", "o", "g", "o", ".", "p", "n", "g">>

S_efficiency_meter_png ==
    <<"_", "e", "f", "f", "i", "c", "i", "e", "n", "c", "y", "_", "m", "e", "t", "e", "r", ".", "p", "n", "g">>

S_money_leak_png ==
    <<"_", "m", "o", "n", "e", "y", "_", "l", "e", "a", "k", ".", "p", "n", "g">>

S_cost_donut_png ==
    <<"_", "c", "o", "s", "t", "_", "d", "o", "n", "u", "t", ".", "p", "n", "g">>

S_time_donut_png ==
    <<"_", "t", "i", "m", "e", "_", "d", "o", "n", "u", "t", ".", "p", "n", "g">>

S_match_donut_png ==
    <<"_", "m", "a", "t", "c", "h", "_", "d", "o", "n", "u", "t", ".", "p", "n", "g">>

S_peer_bars_png ==
    <<"_", "p", "e", "e", "r", "_", "b", "a", "r", "s", ".", "p", "n", "g">>

S_savings_calc_png ==
    <<"_", "s", "a", "v", "i", "n", "g", "s", "_", "c", "a", "l", "c", ".", "p", "n", "g">>

S_process_heatmap_png ==
    <<"_", "p", "r", "o", "c", "e", "s", "s", "_", "h", "e", "a", "t", "m", "a", "p", ".", "p", "n", "g">>

I_Manufacturing ==
    <<"M", "a", "n", "u", "f", "a", "c", "t", "u", "r", "i", "n", "g">>

I_FinTechFinancial ==
    <<"F", "i", "n", "T", "e", "c", "h", " ", "F", "i", "n", "a", "n", "c", "i", "a", "l", " ", "S", "e", "r", "v", "i", "c", "e", "s">>

I_TechManufacturing ==
    <<"T", "e", "c", "h", " ", "M", "a", "n", "u", "f", "a", "c", "t", "u", "r", "i", "n", "g">>

I_FINANCIAL ==
    <<"F", "I", "N", "A", "N", "C", "I", "A", "L">>

I_FinancialManufacturing ==
    <<"F", "i", "n", "a", "n", "c", "i", "a", "l", " ", "M", "a", "n", "u", "f", "a", "c", "t", "u", "r", "i", "n", "g">>

I_Biotech ==
    <<"B", "i", "o", "t", "e", "c", "h">>

I_Retail ==
    <<"R", "e", "t", "a", "i", "l">>

I_Empty ==
    <<>>

U_https ==
    <<"h", "t", "t", "p", "s", ":", "/", "/", "e", "x", "a", "m", "p", "l", "e", ".", "c", "o", "m", "/", "l", "o", "g", "o", ".", "p", "n", "g">>

U_padded ==
    <<" ", " ", "H", "T", "T", "P", ":", "/", "/", "x", ".", "c", "o", "/", "l", ".", "p", "n", "g", " ">>

U_padded_trimmed ==
    <<"H", "T", "T", "P", ":", "/", "/", "x", ".", "c", "o", "/", "l", ".", "p", "n", "g">>

U_upper ==
    <<"H", "T", "T", "P", "S", ":", "/", "/", "A", ".", "i", "o">>

U_near ==
    <<"h", "t", "t", "p", ":", "/", "x">>

U_not_a_url ==
    <<"n", "o", "t", "-", "a", "-", "u", "r", "l">>

\* ------------------------------------------------------------ cell values
NaN == [kind |-> "nan", num |-> 0, str |-> <<>>]

None == [kind |-> "none", num |-> 0, str |-> <<>>]

Num(n) == [kind |-> "num", num |-> n, str |-> <<>>]

Str(s) == [kind |-> "str", num |-> 0, str |-> s]

\* ------------------------------------------------------ string operations
UpperLetters ==
    <<"A", "B", "C", "D", "E", "F", "G", "H", "I", "J", "K", "L", "M",
      "N", "O", "P", "Q", "R", "S", "T", "U", "V", "W", "X", "Y", "Z">>

LowerLetters ==
    <<"a", "b", "c", "d", "e", "f", "g", "h", "i", "j", "k", "l", "m",
      "n", "o", "p", "q", "r", "s", "t", "u", "v", "w", "x", "y", "z">>

Digits == <<"0", "1", "2", "3", "4", "5", "6", "7", "8", "9">>

\* str.lower on one character
lower_char(c) ==
    IF \E i \in 1..26 : UpperLetters[i] = c
    THEN LowerLetters[CHOOSE i \in 1..26 : UpperLetters[i] = c]
    ELSE c

\* str.lower
lower(s) == [i \in 1..Len(s) |-> lower_char(s[i])]

\* str.startswith(prefix)
startswith(s, prefix) ==
    /\ Len(prefix) <= Len(s)
    /\ SubSeq(s, 1, Len(prefix)) = prefix

\* the Python test `sub in s` on strings
contains(s, sub) ==
    \E i \in 0..(Len(s) - Len(sub)) : SubSeq(s, i + 1, i + Len(sub)) = sub

\* str.strip(): drops leading and trailing whitespace
strip(s) ==
    IF \A i \in 1..Len(s) : s[i] = " "
    THEN <<>>
    ELSE LET first == CHOOSE i \in 1..Len(s) :
                          s[i] # " " /\ \A j \in 1..(i - 1) : s[j] = " "
             last  == CHOOSE i \in 1..Len(s) :
                          s[i] # " " /\ \A j \in (i + 1)..Len(s) : s[j] = " "
         IN  SubSeq(s, first, last)

\* str(n) for a non-negative integer, as used by the f-strings
RECURSIVE int_to_str(_)
int_to_str(n) ==
    IF n < 10 THEN <<Digits[n + 1]>>
    ELSE int_to_str(n \div 10) \o <<Digits[(n % 10) + 1]>>

\* str(v) of a cell value (line 40 applies it to the industry cell)
py_str(v) ==
    CASE v.kind = "str"  -> v.str
      [] v.kind = "num"  -> int_to_str(v.num)
      [] v.kind = "nan"  -> S_nan
      [] OTHER           -> <<"N", "o", "n", "e">>

\* ------------------------------------------------- get_company_metrics
\* Processing Time (Days), lines 43-48
processing_time_le(employees) ==
    IF employees <= 50 THEN 21
    ELSE IF 50 <= employees /\ employees < 250 THEN 15
    ELSE 10

processing_time_zero(employees) ==
    IF employees < 50 THEN 21
    ELSE IF 50 <= employees /\ employees < 250 THEN 15
    ELSE 0

processing_time(employees) ==
    IF employees < 50 THEN 21
    ELSE IF 50 <= employees /\ employees < 250 THEN 15
    ELSE 10

\* The float held in metrics['cost_per_invoice'] is kept as a record:
\*   x100  the decimal value in hundredths (42.8 is 4280),
\*   exp   the binary exponent e of (value - 5), 2^e <= value - 5 < 2^(e+1),
\*   err25 the signed distance of the IEEE-754 double the code computes
\*         from that decimal value, in units of ulp/25 with ulp = 2^(e-52).
\* 1.8 and 1.2 are not binary fractions, so 21 * 1.8 + 5 is the double
\* 42.800000000000004 (err25 = 15) and 10 * 1.8 + 5 times 1.2 is
\* 27.599999999999998 (err25 = -15); 15 * 1.8 + 5 and 10 * 1.8 + 5 are the
\* exact doubles 32.0 and 23.0.
float_exp(x100) ==
    IF x100 - 500 >= 3200 THEN 5 ELSE 4

float_err25(pt, financial) ==
    CASE pt = 21 /\ ~financial -> 15
      [] pt = 21 /\ financial  -> 23
      [] pt = 15 /\ financial  -> -5
      [] pt = 10 /\ financial  -> -15
      [] OTHER                 -> 0

\* Cost Per Invoice ($), lines 51-53
cost_per_invoice(pt, industry) ==
    LET financial == contains(lower(py_str(industry)), S_financial)
        x100 == IF financial THEN ((pt * 180 + 500) * 12) \div 10
                ELSE pt * 180 + 500
    IN  [x100 |-> x100, exp |-> float_exp(x100),
         err25 |-> float_err25(pt, financial)]

\* First-Time Match Rate (%), lines 56-61
first_time_match_rate_techfirst(industry) ==
    IF contains(lower(py_str(industry)), S_tech) THEN 65
    ELSE IF contains(lower(py_str(industry)), S_manufacturing) THEN 35
    ELSE 50

first_time_match_rate(industry) ==
    IF contains(lower(py_str(industry)), S_manufacturing) THEN 35
    ELSE IF contains(lower(py_str(industry)), S_tech) THEN 65
    ELSE 50

\* AP Efficiency Score (%), lines 64-67:
\*   min(int((5/pt)*40 + (12/cost)*40 + (rate/85)*20), 95)
\* The three quotients are summed over the common denominator pt*x100*85
\* and int() is the floor of the non-negative sum.  The sum is at least
\* 0.03 away from an integer for every value the three inputs take, so the
\* double rounding of the code does not change the truncated result.
Min(a, b) == IF a < b THEN a ELSE b

efficiency_score_inverted(pt, cost, rate) ==
    LET num == 8 * pt * cost.x100 * 85 + 48000 * 85 + 20 * rate * cost.x100
        den == cost.x100 * 85
    IN  Min(num \div den, 95)

efficiency_score(pt, cost, rate) ==
    LET num == 200 * cost.x100 * 85 + 48000 * pt * 85 + 20 * rate * pt * cost.x100
        den == pt * cost.x100 * 85
    IN  Min(num \div den, 95)

\* floor(log2(n)) for n >= 1
RECURSIVE floor_log2(_)
floor_log2(n) == IF n < 2 THEN 0 ELSE 1 + floor_log2(n \div 2)

RECURSIVE pow2(_)
pow2(e) == IF e = 0 THEN 1 ELSE 2 * pow2(e - 1)

\* Annual Savings Calculation, lines 70-73:
\*   int(employees * 20 * 12 * (cost_per_invoice - 5))
\* total_invoices is an exact integer and cost_per_invoice - 5 an exact
\* double subtraction; their product is rounded once to the nearest double
\* and int() truncates it.  With the decimal product N an integer and the
\* double below its decimal value (err25 < 0), the product lies below N
\* and is rounded up to N only if it is within half an ulp of N; otherwise
\* int() yields N - 1.
annual_savings_x2(employees, cost) ==
    LET total_invoices == employees * 2 * 12
        scaled == total_invoices * (cost.x100 - 500)
    IN  scaled \div 100

annual_savings(employees, cost) ==
    LET total_invoices == employees * 20 * 12
        scaled == total_invoices * (cost.x100 - 500)
        N == scaled \div 100
    IN  IF scaled % 100 # 0 \/ cost.err25 >= 0 \/ N <= 1 THEN N
        ELSE IF total_invoices * (-cost.err25) * pow2(cost.exp + 1)
                    <= 25 * pow2(floor_log2(N - 1))
             THEN N
             ELSE N - 1

NoMetrics ==
    [raised |-> "unset", processing_time |-> 0,
     cost_per_invoice |-> [x100 |-> 0, exp |-> 0, err25 |-> 0],
     first_time_match_rate |-> 0, efficiency_score |-> 0, annual_savings |-> 0]

\* get_company_metrics(employees, industry), lines 37-75.  employees is a
\* cell: comparing a str with 50 on line 43 raises TypeError, and a float
\* division by zero on lines 64-65 raises ZeroDivisionError.
get_company_metrics(employees, industry) ==
    IF employees.kind # "num"
    THEN [NoMetrics EXCEPT !.raised = "TypeError"]
    ELSE LET pt   == processing_time(employees.num)
             cost == cost_per_invoice(pt, industry)
             rate == first_time_match_rate(industry)
         IN  IF pt = 0 \/ cost.x100 = 0
             THEN [NoMetrics EXCEPT !.raised = "ZeroDivisionError",
                                    !.processing_time = pt,
                                    !.cost_per_invoice = cost,
                                    !.first_time_match_rate = rate]
             ELSE [raised |-> "none",
                   processing_time |-> pt,
                   cost_per_invoice |-> cost,
                   first_time_match_rate |-> rate,
                   efficiency_score |-> efficiency_score(pt, cost, rate),
                   annual_savings |-> annual_savings(employees.num, cost)]

\* ------------------------------------------------------- logo helpers
\* first_non_nan_url(*values), lines 20-24
RECURSIVE first_non_nan_url_untrimmed(_)
first_non_nan_url_untrimmed(values) ==
    IF values = <<>> THEN None
    ELSE LET v == Head(values)
         IN  IF /\ v.kind = "str"
                /\ \/ startswith(lower(strip(v.str)), S_http)
                   \/ startswith(lower(strip(v.str)), S_https)
             THEN Str(v.str)
             ELSE first_non_nan_url_untrimmed(Tail(values))

RECURSIVE first_non_nan_url(_)
first_non_nan_url(values) ==
    IF values = <<>> THEN None
    ELSE LET v == Head(values)
         IN  IF /\ v.kind = "str"
                /\ \/ startswith(lower(strip(v.str)), S_http)
                   \/ startswith(lower(strip(v.str)), S_https)
             THEN Str(strip(v.str))
             ELSE first_non_nan_url(Tail(values))

\* download_image(url, dest_path), lines 26-34.  ok is the outcome of the
\* request (requests.get, raise_for_status and the write all succeed);
\* every exception is caught on line 33 and None returned.
download_image_uncaught(dest_path, ok) ==
    [raised |-> ~ok, ret |-> IF ok THEN Str(dest_path) ELSE None]

download_image(dest_path, ok) ==
    [raised |-> FALSE, ret |-> IF ok THEN Str(dest_path) ELSE None]

\* ------------------------------------------------ names and file paths
UnsafeChars == {"\\", "/", "*", "?", ":", "\"", "<", ">", "|"}

IsSafeChar(c) == c \notin UnsafeChars

\* re.sub(r'[\\/*?:"<>|]', "", company_name), line 574
re_sub_keeps_slash(company_name) ==
    SelectSeq(company_name, LAMBDA c : IsSafeChar(c) \/ c = "/")

re_sub(company_name) == SelectSeq(company_name, IsSafeChar)

ChartKeys ==
    <<"efficiency_meter", "money_leak", "cost", "time", "match",
      "peer_bars", "savings_calc", "process_heatmap">>

ChartSuffix(key) ==
    CASE key = "efficiency_meter" -> S_efficiency_meter_png
      [] key = "money_leak"       -> S_money_leak_png
      [] key = "cost"             -> S_cost_donut_png
      [] key = "time"             -> S_time_donut_png
      [] key = "match"            -> S_match_donut_png
      [] key = "peer_bars"        -> S_peer_bars_png
      [] key = "savings_calc"     -> S_savings_calc_png
      [] OTHER                    -> S_process_heatmap_png

\* chart_files[key], lines 595-604
chart_files_shared(name, key) == S_img \o ChartSuffix(key)

chart_files(name, key) == S_img \o name \o ChartSuffix(key)

\* candidate_logo, line 589
candidate_logo(name) == S_img \o name \o S_logo_png

\* pdf_filename, line 627
pdf_filename(name) == S_reports_AP_Audit_ \o name \o S_pdf

\* ------------------------------------------------------------ the input
N_Acme == <<"A", "c", "m", "e">>

N_A_slash_B == <<"A", "/", "B">>

N_AB == <<"A", "B">>

N_Q == <<"Q", "?">>

E_n_a == <<"n", "/", "a">>

Industries ==
    {I_Manufacturing, I_FinTechFinancial, I_TechManufacturing, I_FINANCIAL,
     I_FinancialManufacturing, I_Biotech, I_Retail, I_Empty, S_General}

IndustryCells == {Str(s) : s \in Industries} \cup {NaN}

Row(name, emp, ind, logo, logo_url, org_logo) ==
    [name |-> name, employees |-> emp, industry |-> ind,
     logo |-> logo, logo_url |-> logo_url, org_logo |-> org_logo]

\* rows of fin_data.xlsx as pd.read_excel yields them: an empty cell is NaN
RowValues ==
    { Row(Str(N_Acme), Num(100), Str(I_Manufacturing), NaN, Str(U_https), NaN),
      Row(Str(N_A_slash_B), NaN, Str(I_FinTechFinancial), Str(U_not_a_url), NaN, Str(U_padded)),
      Row(Str(N_AB), Num(250), NaN, NaN, NaN, NaN),
      Row(NaN, Num(49), Str(I_Retail), NaN, NaN, Str(U_https)),
      Row(Str(N_Q), Str(E_n_a), Str(S_General), NaN, NaN, NaN) }

AllColumns ==
    {"name", "organization/estimated_num_employees", "organization/industry",
     "logo", "logo_url", "organization/logo"}

ColumnSets == {AllColumns, AllColumns \ {"name"}, {"name", "logo_url"}}

RECURSIVE SeqsUpTo(_, _)
SeqsUpTo(S, n) ==
    IF n = 0 THEN {<<>>}
    ELSE LET shorter == SeqsUpTo(S, n - 1)
         IN  shorter \cup {Append(s, x) : s \in {t \in shorter : Len(t) = n - 1}, x \in S}

DataFrames == [columns : ColumnSets, rows : SeqsUpTo(RowValues, MaxRows)]

NoDataFrame == [columns |-> {}, rows |-> <<>>]

\* ------------------------------------------------------------- the state
VARIABLES
    file_exists,        \* os.path.exists(input_file_path)
    df,                 \* the DataFrame read on line 554
    pc,                 \* position of process_data_and_generate_reports
    index,              \* loop variable of line 562 (RangeIndex, from 0)
    company_name,       \* locals of the loop body
    employees,
    industry,
    metrics,
    safe_name,
    logo_url,
    logo_path,
    chart_i,            \* next chart call of lines 607-619, 1..8
    files,              \* path -> content, the reports/ and img/ trees
    pdf_filenames,      \* line 560
    output,             \* fin_data_with_cold_email_reports.xlsx
    reported,           \* the handler of lines 647-650 has printed
    exit_status,        \* -1 while the interpreter runs
    raised_at,          \* history: the step whose exception ended the batch
    begun,              \* history: row indices in the order the loop took them
    downloads,          \* history: row index -> calls of download_image
    download_failed,    \* history: rows whose download returned None
    chart_failed,       \* history: rows with a chart call that raised
    reports             \* history: the documents passed to pdf.output

vars ==
    <<file_exists, df, pc, index, company_name, employees, industry, metrics,
      safe_name, logo_url, logo_path, chart_i, files, pdf_filenames, output,
      reported, exit_status, raised_at, begun, downloads, download_failed,
      chart_failed, reports>>

locals == <<company_name, employees, industry, metrics, safe_name, logo_url, logo_path, chart_i>>

history == <<begun, downloads, download_failed, chart_failed, reports>>

NoOutput == [written |-> FALSE, rows |-> <<>>, personalisation |-> <<>>]

NoFiles == [p \in {} |-> 0]

InitCommon ==
    /\ index = 0
    /\ company_name = None
    /\ safe_name = <<>>
    /\ logo_url = None
    /\ logo_path = None
    /\ chart_i = 1
    /\ files = NoFiles
    /\ pdf_filenames = <<>>
    /\ output = NoOutput
    /\ reported = FALSE
    /\ exit_status = -1
    /\ raised_at = "none"
    /\ begun = <<>>
    /\ downloads = <<>>
    /\ download_failed = {}
    /\ chart_failed = {}
    /\ reports = <<>>

\* the state at the call on line 655
Init ==
    /\ file_exists \in BOOLEAN
    /\ df \in (IF file_exists THEN DataFrames ELSE {NoDataFrame})
    /\ pc = "NotStarted"
    /\ employees = None
    /\ industry = None
    /\ metrics = NoMetrics
    /\ InitCommon

\* get_company_metrics called on its own with any count and industry
InitMetrics ==
    /\ file_exists = FALSE
    /\ df = NoDataFrame
    /\ pc = "derive"
    /\ employees \in {Num(n) : n \in 0..MaxEmployees}
    /\ industry \in IndustryCells
    /\ metrics = NoMetrics
    /\ InitCommon

Derive ==
    /\ pc = "derive"
    /\ metrics' = get_company_metrics(employees, industry)
    /\ pc' = "derived"
    /\ UNCHANGED <<file_exists, df, index, company_name, employees, industry,
                   safe_name, logo_url, logo_path, chart_i, files,
                   pdf_filenames, output, reported, exit_status, raised_at>>
    /\ UNCHANGED history


\* --------------------------------- process_data_and_generate_reports
\* row.get(col, default) on the row at index: the default is used only
\* when the column is absent; an empty cell comes back as NaN
row_get(col, cell, default) ==
    IF col \in df.columns THEN cell ELSE default

\* the three arguments of the call on lines 582-585
logo_candidates(row) ==
    <<row_get("logo", row.logo, None),
      row_get("logo_url", row.logo_url, None),
      row_get("organization/logo", row.org_logo, None)>>

\* pd.isna(v)
pd_isna(v) == v.kind \in {"nan", "none"}

isfile(path) == path \in DOMAIN files

\* an exception reaches the handler of lines 647-650, which prints it
Raise(step) ==
    /\ pc' = "Failed"
    /\ raised_at' = step
    /\ reported' = TRUE

\* lines 550-560: read the spreadsheet; FileNotFoundError if it is missing
ReadInput ==
    /\ pc = "NotStarted"
    /\ IF file_exists
       THEN /\ pc' = "loop"
            /\ UNCHANGED <<raised_at, reported>>
       ELSE Raise("read")
    /\ UNCHANGED <<file_exists, df, index, files, pdf_filenames, output, exit_status>>
    /\ UNCHANGED locals
    /\ UNCHANGED history

\* lines 562-585: take the next row, read its fields, derive the metrics,
\* clean the company name and resolve the logo URL
BeginRow ==
    /\ pc = "loop"
    /\ index < Len(df.rows)
    /\ LET row  == df.rows[index + 1]
           name == row_get("name", row.name, Str(S_Company_ \o int_to_str(index)))
           emp0 == row_get("organization/estimated_num_employees", row.employees, Num(100))
           emp  == IF pd_isna(emp0) THEN Num(100) ELSE emp0
           ind  == row_get("organization/industry", row.industry, Str(S_General))
           m    == get_company_metrics(emp, ind)
           url  == first_non_nan_url(logo_candidates(row))
       IN  /\ company_name' = name
           /\ employees' = emp
           /\ industry' = ind
           /\ begun' = Append(begun, index)
           /\ IF m.raised # "none"
              THEN /\ Raise("metrics")
                   /\ UNCHANGED <<metrics, safe_name, logo_url>>
              ELSE /\ metrics' = m
                   /\ IF name.kind # "str"
                      THEN /\ Raise("sanitize")
                           /\ UNCHANGED <<safe_name, logo_url>>
                      ELSE /\ safe_name' = re_sub(name.str)
                           /\ logo_url' = url
                           /\ pc' = "logo"
                           /\ UNCHANGED <<raised_at, reported>>
    /\ UNCHANGED <<file_exists, df, index, logo_path, chart_i, files,
                   pdf_filenames, output, exit_status>>
    /\ UNCHANGED <<downloads, download_failed, chart_failed, reports>>

\* lines 587-592: one download attempt when a URL was found
FetchLogo ==
    /\ pc = "logo"
    /\ \E ok \in (IF logo_url.kind = "none" THEN {FALSE} ELSE BOOLEAN) :
         IF logo_url.kind = "none"
         THEN /\ logo_path' = None
              /\ pc' = "charts"
              /\ UNCHANGED <<files, raised_at, reported, downloads, download_failed>>
         ELSE LET dest == candidate_logo(safe_name)
                  downloaded == download_image(dest, ok)
              IN  /\ downloads' = Append(downloads, index)
                  /\ files' = IF ok THEN (dest :> [row |-> index, kind |-> "logo", color |-> ""]) @@ files
                              ELSE files
                  /\ IF downloaded.raised
                     THEN /\ Raise("download")
                          /\ UNCHANGED <<logo_path, download_failed>>
                     ELSE /\ logo_path' = downloaded.ret
                          /\ download_failed' = IF downloaded.ret.kind = "none"
                                                THEN download_failed \cup {index}
                                                ELSE download_failed
                          /\ pc' = "charts"
                          /\ UNCHANGED <<raised_at, reported>>
    /\ chart_i' = 1
    /\ UNCHANGED <<file_exists, df, index, company_name, employees, industry,
                   metrics, safe_name, logo_url, pdf_filenames, output, exit_status>>
    /\ UNCHANGED <<begun, chart_failed, reports>>

\* the colour of the efficiency arc, lines 90-96
meter_color(value) ==
    IF value < 50 THEN "RED"
    ELSE IF value < 75 THEN "AMBER"
    ELSE "GREEN"

\* the image a chart call saves; the efficiency meter is drawn in the
\* colour of its band
chart_image(key) ==
    [row |-> index, kind |-> key,
     color |-> IF key = "efficiency_meter"
               THEN meter_color(metrics.efficiency_score) ELSE ""]

\* lines 606-619: the eight chart calls, in order; each either saves its
\* image or raises, and nothing in the loop catches the exception
RenderChart ==
    /\ pc = "charts"
    /\ \E ok \in BOOLEAN :
         IF ok
         THEN /\ files' = (chart_files(safe_name, ChartKeys[chart_i])
                             :> chart_image(ChartKeys[chart_i])) @@ files
              /\ IF chart_i < Len(ChartKeys)
                 THEN chart_i' = chart_i + 1 /\ pc' = "charts"
                 ELSE chart_i' = chart_i /\ pc' = "pdf"
              /\ UNCHANGED <<raised_at, reported, chart_failed>>
         ELSE /\ Raise("chart")
              /\ chart_failed' = chart_failed \cup {index}
              /\ UNCHANGED <<files, chart_i>>
    /\ UNCHANGED <<file_exists, df, index, company_name, employees, industry,
                   metrics, safe_name, logo_url, logo_path, pdf_filenames,
                   output, exit_status>>
    /\ UNCHANGED <<begun, downloads, download_failed, reports>>

\* the colour of the score on the hook page, lines 389-395
score_color(m) ==
    IF m.efficiency_score < 50 THEN "RED"
    ELSE IF m.efficiency_score < 75 THEN "AMBER"
    ELSE "GREEN"

\* the URGENT stamp of the hook page, lines 405-412
urgent_stamp_both(m) == m.efficiency_score < 50 /\ m.first_time_match_rate < 50

urgent_stamp(m) == m.efficiency_score < 50

\* create_hook_dashboard and create_roadmap_page, lines 364-546: what the
\* two pages carry of the row
document ==
    [company  |-> company_name.str,
     score    |-> metrics.efficiency_score,
     score_color |-> score_color(metrics),
     urgent   |-> urgent_stamp(metrics),
     logo     |-> logo_path.kind = "str" /\ isfile(logo_path.str),
     charts   |-> {ChartKeys[k] : k \in {j \in 1..Len(ChartKeys) :
                                           isfile(chart_files(safe_name, ChartKeys[j]))}}]

\* create_hook_dashboard called on the metrics get_company_metrics
\* returned, with no logo and no chart image on disk
HookPage ==
    /\ pc = "derived"
    /\ metrics.raised = "none"
    /\ reports' = Append(reports, document)
    /\ pc' = "drawn"
    /\ UNCHANGED <<file_exists, df, index, files, pdf_filenames, output,
                   reported, exit_status, raised_at>>
    /\ UNCHANGED locals
    /\ UNCHANGED <<begun, downloads, download_failed, chart_failed>>

NextMetrics ==
    \/ Derive
    \/ HookPage

SpecMetrics == InitMetrics /\ [][NextMetrics]_vars

\* lines 621-631: build the two pages, write the PDF, record its path
BuildPdf ==
    /\ pc = "pdf"
    /\ \E ok \in BOOLEAN :
         IF ok
         THEN /\ files' = (pdf_filename(safe_name) :> [row |-> index, kind |-> "pdf", color |-> ""]) @@ files
              /\ pdf_filenames' = Append(pdf_filenames, pdf_filename(safe_name))
              /\ reports' = Append(reports, document)
              /\ index' = index + 1
              /\ pc' = "loop"
              /\ UNCHANGED <<raised_at, reported>>
         ELSE /\ Raise("pdf")
              /\ UNCHANGED <<files, pdf_filenames, reports, index>>
    /\ UNCHANGED <<file_exists, df, output, exit_status>>
    /\ UNCHANGED locals
    /\ UNCHANGED <<begun, downloads, download_failed, chart_failed>>

\* lines 633-636: after the last row, add the column and write the sheet
SaveOutput ==
    /\ pc = "loop"
    /\ index >= Len(df.rows)
    /\ \E ok \in BOOLEAN :
         IF ok
         THEN /\ output' = [written |-> TRUE, rows |-> df.rows,
                            personalisation |-> pdf_filenames]
              /\ pc' = "Completed"
              /\ UNCHANGED <<raised_at, reported>>
         ELSE Raise("save") /\ UNCHANGED output
    /\ UNCHANGED <<file_exists, df, index, files, pdf_filenames, exit_status>>
    /\ UNCHANGED locals
    /\ UNCHANGED history

\* lines 652-655: the call returns normally on both paths (the handler
\* swallows the exception), so the interpreter exits with status 0
Exit ==
    /\ pc \in {"Completed", "Failed"}
    /\ exit_status = -1
    /\ exit_status' = 0
    /\ UNCHANGED <<file_exists, df, pc, index, files, pdf_filenames, output,
                   reported, raised_at>>
    /\ UNCHANGED locals
    /\ UNCHANGED history

\* first_non_nan_url called on its own, with the three logo cells of one
\* row drawn from strings that are URLs, strings that are not, numbers and
\* empty cells, and with the logo column present or absent
LogoCells ==
    {NaN, Num(7), Str(U_not_a_url), Str(U_near), Str(U_https), Str(U_padded), Str(U_upper)}

InitUrl ==
    /\ file_exists = TRUE
    /\ \E a \in LogoCells, b \in LogoCells, c \in LogoCells :
         \E cols \in {AllColumns, AllColumns \ {"logo"}} :
             df = [columns |-> cols,
                   rows |-> <<Row(Str(N_Acme), Num(100), Str(S_General), a, b, c)>>]
    /\ pc = "resolve"
    /\ employees = None
    /\ industry = None
    /\ metrics = NoMetrics
    /\ InitCommon

ResolveLogo ==
    /\ pc = "resolve"
    /\ logo_url' = first_non_nan_url(logo_candidates(df.rows[index + 1]))
    /\ pc' = "resolved"
    /\ UNCHANGED <<file_exists, df, index, company_name, employees, industry,
                   metrics, safe_name, logo_path, chart_i, files,
                   pdf_filenames, output, reported, exit_status, raised_at>>
    /\ UNCHANGED history

NextUrl == ResolveLogo

SpecUrl == InitUrl /\ [][NextUrl]_vars

Next ==
    \/ ReadInput
    \/ BeginRow
    \/ FetchLogo
    \/ RenderChart
    \/ BuildPdf
    \/ SaveOutput
    \/ Exit

Spec == Init /\ [][Next]_vars

\* ================================================================ claims
\* C1: for every employee count n >= 0 and every industry,
\* get_company_metrics sets processing_time to 21 when n < 50, to 15 when
\* 50 <= n < 250 and to 10 when n >= 250 (49 -> 21, 50 -> 15, 249 -> 15,
\* 250 -> 10), and the value is always one of 10, 15, 21.
C1_ProcessingTimeTiers ==
    pc = "derived" =>
        LET n  == employees.num
            pt == metrics.processing_time
        IN  /\ (n < 50 => pt = 21)
            /\ (50 <= n /\ n < 250 => pt = 15)
            /\ (n >= 250 => pt = 10)
            /\ (n = 49 => pt = 21)
            /\ (n = 50 => pt = 15)
            /\ (n = 249 => pt = 15)
            /\ (n = 250 => pt = 10)
            /\ pt \in {10, 15, 21}

C1_Witness ==
    /\ pc = "derived"
    /\ employees.num = 250
    /\ metrics.processing_time = 10

IsExample == employees = Num(100) /\ industry = Str(I_Manufacturing)

\* C2 (as stated): get_company_metrics(100, "Manufacturing") returns
\* processing_time 15, cost_per_invoice 32.0, first_time_match_rate 35,
\* efficiency_score 36 and annual_savings 6,480,000.
C2_ExampleAsStated ==
    pc = "derived" /\ IsExample =>
        /\ metrics.processing_time = 15
        /\ metrics.cost_per_invoice.x100 = 3200
        /\ metrics.cost_per_invoice.err25 = 0
        /\ metrics.first_time_match_rate = 35
        /\ metrics.efficiency_score = 36
        /\ metrics.annual_savings = 6480000

\* C2 (amended): get_company_metrics(100, "Manufacturing") returns
\* processing_time 15, cost_per_invoice exactly 32.0,
\* first_time_match_rate 35, efficiency_score 36 and annual_savings
\* 648,000, which is 100 * 20 * 12 * (32.0 - 5) truncated to an integer.
C2_ExampleAmended ==
    pc = "derived" /\ IsExample =>
        /\ metrics.processing_time = 15
        /\ metrics.cost_per_invoice.x100 = 3200
        /\ metrics.cost_per_invoice.err25 = 0
        /\ metrics.first_time_match_rate = 35
        /\ metrics.efficiency_score = 36
        /\ metrics.annual_savings = 648000
        /\ metrics.annual_savings = (100 * 20 * 12 * (3200 - 500)) \div 100

C2_Witness ==
    /\ pc = "derived"
    /\ IsExample
    /\ metrics.annual_savings = 648000

\* the industry strings of the model, classified by hand by the keywords
\* their lower-cased text contains
WithManufacturing == {I_Manufacturing, I_TechManufacturing, I_FinancialManufacturing}

WithTech == {I_FinTechFinancial, I_TechManufacturing, I_Biotech}

WithFinancial == {I_FinTechFinancial, I_FINANCIAL, I_FinancialManufacturing}

IndustryText == IF industry.kind = "str" THEN industry.str ELSE S_nan

\* C3: industry matching is case-insensitive and substring-based:
\* first_time_match_rate is 35 whenever the industry contains
\* "manufacturing" (even with "tech"), 65 when it contains "tech" but not
\* "manufacturing", 50 otherwise; independently cost_per_invoice is
\* processing_time * 1.8 + 5, times 1.2 exactly when the industry contains
\* "financial" ("FinTech Financial Services" gets both 1.2 and 65).
C3_IndustryMatching ==
    pc = "derived" =>
        LET s    == IndustryText
            pt   == metrics.processing_time
            base == pt * 180 + 500
        IN  /\ metrics.first_time_match_rate =
                   IF s \in WithManufacturing THEN 35
                   ELSE IF s \in WithTech THEN 65
                   ELSE 50
            /\ metrics.cost_per_invoice.x100 * 10 =
                   IF s \in WithFinancial THEN base * 12 ELSE base * 10
            /\ (s = I_FinTechFinancial =>
                   /\ metrics.first_time_match_rate = 65
                   /\ metrics.cost_per_invoice.x100 * 10 = base * 12)

C3_Witness ==
    /\ pc = "derived"
    /\ industry = Str(I_TechManufacturing)
    /\ metrics.first_time_match_rate = 35

\* C4: for every employee count >= 0 (0 included) and every industry,
\* get_company_metrics returns a result without error: no divisor of the
\* formula chain is zero (processing_time >= 10, cost_per_invoice > 0) and
\* the returned efficiency_score is <= 95.
C4_NoErrorAndCapped ==
    pc = "derived" =>
        /\ metrics.raised = "none"
        /\ metrics.processing_time >= 10
        /\ metrics.cost_per_invoice.x100 > 0
        /\ metrics.efficiency_score <= 95

C4_Witness ==
    /\ pc = "derived"
    /\ employees.num = 0
    /\ metrics.raised = "none"
    /\ metrics.efficiency_score > 0

\* C5: a chart that fails to render while row i is processed does not
\* abort the batch (the row's report is still assembled without that
\* chart, later rows are processed, the output spreadsheet is written).
C5_ChartFailureDoesNotAbort ==
    \A i \in chart_failed : pc # "Failed"

NoDuplicates(s) == \A j, k \in 1..Len(s) : j # k => s[j] # s[k]

\* C6: a logo download is attempted at most once per row and never
\* raises: when it fails download_image returns None, the row's logo_path
\* stays None, the row's report carries no logo, its PDF path is recorded
\* like any other row's, and the failure does not end the batch.
C6_LogoFailureDegrades ==
    /\ NoDuplicates(downloads)
    /\ raised_at # "download"
    /\ (pc \in {"charts", "pdf"} /\ index \in download_failed => logo_path = None)
    /\ Len(pdf_filenames) = Len(reports)
    /\ \A i \in download_failed :
           i < Len(reports) =>
               /\ ~reports[i + 1].logo
               /\ pdf_filenames[i + 1] = pdf_filename(re_sub(reports[i + 1].company))

C6_Witness ==
    /\ pc = "Completed"
    /\ 0 \in download_failed
    /\ Len(pdf_filenames) >= 2
    /\ ~reports[1].logo

\* the company name the loop uses for input row i (counted from 0)
NameOfRow(i) ==
    IF "name" \in df.columns THEN df.rows[i + 1].name.str
    ELSE S_Company_ \o int_to_str(i)

\* the name without the characters \ / * ? : " < > |
RECURSIVE Sanitized(_)
Sanitized(s) ==
    IF s = <<>> THEN <<>>
    ELSE IF Head(s) \in {"\\", "/", "*", "?", ":", "\"", "<", ">", "|"}
         THEN Sanitized(Tail(s))
         ELSE <<Head(s)>> \o Sanitized(Tail(s))

\* C7: the batch moves NotStarted -> Processing(row_0) -> Processing(row_1)
\* -> ... -> Completed | Failed, taking the rows strictly in input order,
\* each at most once; at Completed exactly one PDF path is recorded per
\* input row and the i-th entry of the added column is
\* reports/AP_Audit_<sanitized name of row i>.pdf.
C7_RowOrderAndOutput ==
    /\ pc \in {"NotStarted", "loop", "logo", "charts", "pdf", "Completed", "Failed"}
    /\ \A j \in 1..Len(begun) : begun[j] = j - 1
    /\ Len(begun) <= Len(df.rows)
    /\ (pc = "NotStarted" => begun = <<>>)
    /\ (pc \in {"logo", "charts", "pdf"} =>
            /\ index = Len(begun) - 1
            /\ Len(pdf_filenames) = index)
    /\ (pc = "loop" => index = Len(begun) /\ Len(pdf_filenames) = index)
    /\ (pc = "Completed" =>
            /\ Len(begun) = Len(df.rows)
            /\ output.written
            /\ output.rows = df.rows
            /\ Len(output.personalisation) = Len(df.rows)
            /\ \A i \in 0..(Len(df.rows) - 1) :
                   output.personalisation[i + 1] =
                       S_reports_AP_Audit_ \o Sanitized(NameOfRow(i)) \o S_pdf)

C7_Witness ==
    /\ pc = "Completed"
    /\ Len(output.personalisation) = 2
    /\ "name" \in df.columns
    /\ df.rows[2].name = Str(N_A_slash_B)

\* C8: when the input spreadsheet does not exist the run is fatal: no row
\* is processed, no output spreadsheet is written, the error is reported
\* and the process exits with a failure status.
C8_MissingInputIsFatal ==
    ~file_exists /\ exit_status # -1 =>
        /\ begun = <<>>
        /\ ~output.written
        /\ reported
        /\ exit_status # 0

\* the employee-count cell of input row i as row.get returns it
CountCell(i) ==
    row_get("organization/estimated_num_employees", df.rows[i + 1].employees, Num(100))

C10_MissingNamePlaceholder ==
    \A j \in 1..Len(begun) :
        LET i == begun[j]
            missing == \/ "name" \notin df.columns
                       \/ df.rows[i + 1].name.kind = "nan"
            placeholder == S_Company_ \o int_to_str(i)
        IN  missing =>
                /\ (j = Len(begun) =>
                        /\ company_name = Str(placeholder)
                        /\ raised_at # "sanitize")
                /\ (i < Len(pdf_filenames) =>
                        pdf_filenames[i + 1] = pdf_filename(Sanitized(placeholder)))
\* the candidate strings of the model that are URLs (trimmed and
\* lower-cased they start with http:// or https://), with their trimmed text
UrlText(cell) ==
    CASE cell = Str(U_https)  -> U_https
      [] cell = Str(U_padded) -> U_padded_trimmed
      [] cell = Str(U_upper)  -> U_upper
      [] OTHER                -> <<>>

IsUrlCell(cell) == cell \in {Str(U_https), Str(U_padded), Str(U_upper)}

\* the candidates in argument order: logo, logo_url, organization/logo
Candidates ==
    LET row == df.rows[1]
    IN  <<IF "logo" \in df.columns THEN row.logo ELSE None,
          row.logo_url, row.org_logo>>

\* C11: first_non_nan_url returns the first candidate, in argument order,
\* that is a string whose trimmed, lower-cased form starts with http:// or
\* https://, returned trimmed; non-strings and strings that are not URLs
\* are skipped and None is returned when no candidate qualifies
\* ([None, "not-a-url", "https://example.com/logo.png"] yields the third).
C11_FirstUrlWins ==
    pc = "resolved" =>
        LET c == Candidates
            hits == {k \in 1..3 : IsUrlCell(c[k])}
        IN  /\ (hits = {} => logo_url = None)
            /\ (hits # {} =>
                    LET k == CHOOSE h \in hits : \A g \in hits : h <= g
                    IN  logo_url = Str(UrlText(c[k])))
            /\ (c = <<None, Str(U_not_a_url), Str(U_https)>> => logo_url = Str(U_https))

C11_Witness ==
    /\ pc = "resolved"
    /\ Candidates = <<None, Str(U_not_a_url), Str(U_https)>>
    /\ logo_url = Str(U_https)

\* the files row i (counted from 0) wrote while its report was produced:
\* its eight chart images, its PDF and, when the download succeeded, its logo
FilesOfRow(i) ==
    LET name == Sanitized(reports[i + 1].company)
    IN  {chart_files(name, ChartKeys[k]) : k \in 1..Len(ChartKeys)}
            \cup {pdf_filename(name)}
            \cup (IF reports[i + 1].logo THEN {candidate_logo(name)} ELSE {})

RowFilesIntact(i) ==
    \A p \in FilesOfRow(i) : p \in DOMAIN files /\ files[p].row = i

\* the sanitized names under which the rows taken after row i write files
\* (a row whose name cell is not a string writes none)
LaterNames(i) ==
    {Sanitized(NameOfRow(j)) :
        j \in {k \in (i + 1)..(Len(begun) - 1) :
                  "name" \in df.columns => df.rows[k + 1].name.kind = "str"}}

\* C12 (as stated): for any two rows i < j of one run, processing row j
\* leaves the PDF and image files already written for row i unchanged.
C12_EarlierFilesUntouched ==
    \A i \in 0..(Len(reports) - 1) : RowFilesIntact(i)

\* C12 (amended): for any two rows i < j of one run whose sanitized
\* company names differ, processing row j leaves the PDF and image files
\* already written for row i unchanged.
C12_EarlierFilesUntouchedUnlessSameName ==
    \A i \in 0..(Len(reports) - 1) :
        Sanitized(reports[i + 1].company) \notin LaterNames(i) => RowFilesIntact(i)

C12_Witness ==
    /\ pc = "Completed"
    /\ Len(reports) >= 2
    /\ Sanitized(reports[1].company) # Sanitized(reports[2].company)
    /\ reports[1].logo
    /\ RowFilesIntact(0)
    /\ files[pdf_filename(Sanitized(reports[2].company))].row = 1

\* C13: for the metrics of every row (every employee count >= 0 and every
\* industry), the hook page drawn by create_hook_dashboard carries the
\* URGENT flag exactly when efficiency_score < 50 or
\* first_time_match_rate < 50.
C13_UrgentFlag ==
    pc = "drawn" =>
        (reports[1].urgent <=>
            (metrics.efficiency_score < 50 \/ metrics.first_time_match_rate < 50))

C13_Witness ==
    /\ pc = "drawn"
    /\ metrics.first_time_match_rate = 35
    /\ metrics.efficiency_score = 49
    /\ reports[1].urgent

\* C14: for every employee count >= 0 and every industry, the
\* efficiency_score returned by get_company_metrics lies in 27..56: it is
\* never negative, the cap at 95 never changes the result, and the score
\* never reaches the >= 75 (green) band of the efficiency meter and of
\* the hook page.
C14_ScoreRange ==
    pc \in {"derived", "drawn"} =>
        /\ metrics.efficiency_score >= 27
        /\ metrics.efficiency_score <= 56
        /\ metrics.efficiency_score < 95
        /\ metrics.efficiency_score < 75
        /\ meter_color(metrics.efficiency_score) # "GREEN"
        /\ (pc = "drawn" => reports[1].score_color # "GREEN")

C14_Witness ==
    /\ pc = "drawn"
    /\ metrics.efficiency_score = 56
    /\ reports[1].score_color = "AMBER"

====
